---- MODULE Spec2Model ----
(***************************************************************************)
(* Model of perfect-pitch/src/main.rs: the capture callback, the           *)
(* processing loop of run_audio_loop and the display refresh of TunerApp.  *)
(*                                                                         *)
(* Fixed point.  Amplitudes are multiples of 1/300 (THRESHOLD = 0.02 = 6), *)
(* Hann coefficients are multiples of 1/4, so a windowed sample and the    *)
(* RMS are multiples of 1/1200.  A float that can be non-finite is a pair  *)
(* <<n, d>>: the rational n/d when d > 0, +inf <<1,0>>, -inf <<-1,0>>,     *)
(* NaN <<0,0>>.  WINDOW_SIZE and HOP_SIZE are the program's constants      *)
(* scaled down (8192 -> 4, 1024 -> 2) so that TLC can enumerate frames.    *)
(***************************************************************************)
EXTENDS Integers, Sequences, FiniteSets, TLC

WINDOW_SIZE == 4
HOP_SIZE == 2
THRESHOLD == 6

\* Number of samples the capture side enqueues in a behaviour.
MaxSamples == 7

\* Sample values the capture device delivers (units of 1/300).
SampleValues == {0, 16}

\* Sample rates the device may report (Hz).
SampleRates == {48, 1800}

\* Magnitudes the transform may put in a spectrum bin of an analysed frame.
Mags == 0..2

\* Magnitudes of the spectra the peak estimator is applied to on its own.
PeakMags == 0..3

\* Number of samples already enqueued when the display starts refreshing.
AppBurst == 4

\* Longest spectrum the estimator is applied to on its own.
MaxBins == 4

\* The note mapping is applied on its own to the nearest note numbers
\* -MaxNote .. MaxNote + 80 and to i32::MAX.
MaxNote == 40

VARIABLES
    audio_q,        \* samples in flight on the (audio_tx, audio_rx) channel
    audio_open,     \* the capture side still holds audio_tx
    nextId,         \* stream position of the next sample the callback sends
    sample_rate,    \* config.sample_rate
    ring_buffer,    \* VecDeque<f32> of run_audio_loop
    pc,             \* position of the processing loop
    report_q,       \* AudioMessages in flight on the (tx, rx) channel
    rx_alive,       \* the TunerApp still holds the Receiver
    display_note,   \* TunerApp fields
    display_freq,
    display_cents,
    display_amp,
    smoothed_cents,
    refreshSaw,     \* the reports the last display refresh took off report_q
    cycle,          \* what the last analysis cycle did
    cycles,         \* number of analysis cycles completed
    sendFailed,     \* some sender.send returned Err
    drainPushed,    \* samples pushed by the current execution of the drain
    sincePrev,      \* samples pushed since the last analysis cycle
    gap,            \* samples pushed between the last two analysis cycles
    frameStart,     \* stream position of the first sample of the last frame
    prevStart,      \* the same for the frame before it (0: none)
    probe           \* input and result of the estimator applied on its own

vars == <<audio_q, audio_open, nextId, sample_rate, ring_buffer, pc, report_q,
          rx_alive, display_note, display_freq, display_cents, display_amp,
          smoothed_cents, refreshSaw, cycle, cycles, sendFailed, drainPushed, sincePrev,
          gap, frameStart, prevStart, probe>>

captureVars == <<audio_open, nextId, sample_rate>>
ghostVars == <<cycle, cycles, sendFailed, gap, frameStart, prevStart>>
appVars == <<display_note, display_freq, display_cents, display_amp,
             smoothed_cents, refreshSaw>>

----------------------------------------------------------------------------
(* Sequences *)

RECURSIVE SumSeq(_)
SumSeq(s) == IF s = <<>> THEN 0 ELSE Head(s) + SumSeq(Tail(s))

Ids(s) == [i \in 1..Len(s) |-> s[i].id]

----------------------------------------------------------------------------
(* The ring buffer *)

\* PushEvict without the pop_front.
PushEvict_NoEvict(buf, s) == Append(buf, s)

\* PushEvict that drops the new sample instead of the oldest one.
PushEvict_DropNewest(buf, s) ==
    IF Len(buf) >= WINDOW_SIZE THEN buf ELSE Append(buf, s)

\* ring_buffer.push_back(sample); if len > WINDOW_SIZE { pop_front() }
PushEvict(buf, s) ==
    LET b == Append(buf, s)
    IN  IF Len(b) > WINDOW_SIZE THEN Tail(b) ELSE b

\* NotFull with <= for <.
NotFull_OrEqual(buf) == Len(buf) <= WINDOW_SIZE

\* ring_buffer.len() < WINDOW_SIZE
NotFull(buf) == Len(buf) < WINDOW_SIZE

\* PopFront that stops one pop early.
RECURSIVE PopFront_OneLess(_, _)
PopFront_OneLess(buf, n) ==
    IF n <= 1 \/ buf = <<>> THEN buf ELSE PopFront_OneLess(Tail(buf), n - 1)

\* PopFront that pops a single sample whatever the hop.
PopFront_Single(buf, n) == IF buf = <<>> THEN buf ELSE Tail(buf)

\* for _ in 0..HOP_SIZE { ring_buffer.pop_front(); }  (pop_front of an empty
\* deque is a no-op)
RECURSIVE PopFront(_, _)
PopFront(buf, n) ==
    IF n = 0 \/ buf = <<>> THEN buf ELSE PopFront(Tail(buf), n - 1)

----------------------------------------------------------------------------
(* Floats that may be non-finite: <<n, d>> *)

RECURSIVE Gcd(_, _)
Gcd(a, b) == IF b = 0 THEN a ELSE Gcd(b, a % b)

Abs(x) == IF x < 0 THEN 0 - x ELSE x

Sign(x) == IF x > 0 THEN 1 ELSE IF x < 0 THEN 0 - 1 ELSE 0

\* The pair of n/d in lowest terms with a positive denominator; n/0 is
\* +inf, -inf or NaN by the sign of n, as IEEE division gives.
Ratio(n, d) ==
    IF d = 0 THEN <<Sign(n), 0>>
    ELSE LET g == Gcd(Abs(n), Abs(d))
         IN  <<(Sign(d) * n) \div g, Abs(d) \div g>>

IsFinite(f) == f[2] > 0

\* f > k for an integer k: false for NaN and -inf, true for +inf.
FloatGt(f, k) == IF f[2] = 0 THEN f[1] = 1 ELSE f[1] > k * f[2]

----------------------------------------------------------------------------
(* Window and RMS *)

\* 2*cos(2*pi*i/m), an integer for the m the model uses.
Cos2(i, m) ==
    CASE m = 1 -> 2
      [] m = 2 -> IF i % 2 = 0 THEN 2 ELSE 0 - 2
      [] m = 3 -> IF i % 3 = 0 THEN 2 ELSE 0 - 1
      [] m = 4 -> <<2, 0, 0 - 2, 0>>[(i % 4) + 1]
      [] m = 6 -> <<2, 1, 0 - 1, 0 - 2, 0 - 1, 1>>[(i % 6) + 1]

\* window[i] = 0.5 * (1 - cos(2 pi i / (WINDOW_SIZE - 1))), in quarters;
\* Window[i + 1] is the code's window[i].
Window == [i \in 1..WINDOW_SIZE |-> 2 - Cos2(i - 1, WINDOW_SIZE - 1)]

\* fft_input[i].re = sample * win  (units of 1/1200)
FftInput(frame) == [i \in 1..WINDOW_SIZE |-> frame[i].v * Window[i]]

SumSq(input) == SumSeq([i \in 1..Len(input) |-> input[i] * input[i]])

RECURSIVE CeilSqrtFrom(_, _, _)
CeilSqrtFrom(r, num, den) ==
    IF r * r * den >= num THEN r ELSE CeilSqrtFrom(r + 1, num, den)

\* rms = sqrt(sum(re^2) / WINDOW_SIZE), rounded up to the grid of 1/1200,
\* which keeps every comparison with a grid value exact.
Rms(input) == CeilSqrtFrom(0, SumSq(input), WINDOW_SIZE)

\* AboveThreshold with >= for >.
AboveThreshold_OrEqual(amp) == amp >= 4 * THRESHOLD

\* rms > THRESHOLD  (THRESHOLD is in 1/300, rms in 1/1200)
AboveThreshold(amp) == amp > 4 * THRESHOLD

----------------------------------------------------------------------------
(* Peak search and interpolation.  spectrum[k + 1] is the code's bin k. *)

\* MaxByFrom that keeps the accumulated element on a tie (a min_by-style
\* fold), returning the first of equal maxima.
RECURSIVE MaxByFrom_KeepFirst(_, _, _)
MaxByFrom_KeepFirst(spectrum, i, best) ==
    IF i > Len(spectrum) - 1 THEN best
    ELSE MaxByFrom_KeepFirst(spectrum, i + 1,
             IF spectrum[best + 1] >= spectrum[i + 1] THEN best ELSE i)

\* Iterator::max_by folds with "keep the accumulated element only if it
\* compares Greater", so of equal maxima the last is returned.
RECURSIVE MaxByFrom(_, _, _)
MaxByFrom(spectrum, i, best) ==
    IF i > Len(spectrum) - 1 THEN best
    ELSE MaxByFrom(spectrum, i + 1,
                   IF spectrum[best + 1] > spectrum[i + 1] THEN best ELSE i)

\* spectrum.iter().enumerate().skip(1).max_by(..).unwrap_or((0, &0.0)).0
MaxIdx(spectrum) ==
    IF Len(spectrum) <= 1 THEN 0 ELSE MaxByFrom(spectrum, 2, 1)

\* Interior with <= for the second <.
Interior_UpToLast(spectrum, max_idx) ==
    max_idx > 0 /\ max_idx <= Len(spectrum) - 1

\* max_idx > 0 && max_idx < spectrum.len() - 1
Interior(spectrum, max_idx) == max_idx > 0 /\ max_idx < Len(spectrum) - 1

\* y_l - 2.0 * y_c + y_r
Denominator(spectrum, max_idx) ==
    spectrum[max_idx] - 2 * spectrum[max_idx + 1] + spectrum[max_idx + 2]

\* Delta without the factor 0.5.
Delta_NoHalf(spectrum, max_idx) ==
    Ratio(spectrum[max_idx] - spectrum[max_idx + 2],
          Denominator(spectrum, max_idx))

\* delta = 0.5 * (y_l - y_r) / (y_l - 2.0 * y_c + y_r)
Delta(spectrum, max_idx) ==
    Ratio(spectrum[max_idx] - spectrum[max_idx + 2],
          2 * Denominator(spectrum, max_idx))

\* The bins lines 232-234 index: spectrum[max_idx - 1], spectrum[max_idx]
\* and spectrum[max_idx + 1], when the guard of line 231 lets them run.
SpectrumReads(spectrum, max_idx) ==
    IF Interior(spectrum, max_idx)
    THEN {max_idx - 1, max_idx, max_idx + 1}
    ELSE {}

\* An index outside the Vec panics.
InBounds(spectrum, reads) == reads \subseteq 0..(Len(spectrum) - 1)

\* interpolated_freq of lines 231-240
InterpolatedFreq(spectrum, max_idx, sr) ==
    IF Interior(spectrum, max_idx)
    THEN LET delta == Delta(spectrum, max_idx)
         IN  IF IsFinite(delta)
             THEN Ratio((max_idx * delta[2] + delta[1]) * sr,
                        delta[2] * WINDOW_SIZE)
             ELSE delta
    ELSE Ratio(max_idx * sr, WINDOW_SIZE)

----------------------------------------------------------------------------
(* Note mapping, lines 243-249 *)

\* n / d scaled by powers of two into [1, 2): <<n, d, exponent>>
RECURSIVE Normalize2(_, _, _)
Normalize2(n, d, e) ==
    IF n >= 2 * d THEN Normalize2(n, 2 * d, e + 1)
    ELSE IF n < d THEN Normalize2(2 * n, d, e - 1)
    ELSE <<n, d, e>>

\* The first k fraction bits of log2(m / 2^14), by repeated squaring.
RECURSIVE Log2Frac(_, _, _)
Log2Frac(m, k, acc) ==
    IF k = 0 THEN acc
    ELSE LET sq == (m * m) \div 16384
         IN  IF sq >= 32768 THEN Log2Frac(sq \div 2, k - 1, 2 * acc + 1)
             ELSE Log2Frac(sq, k - 1, 2 * acc)

\* log2(n / d) in units of 1/1024, for n, d > 0
Log2(n, d) ==
    LET t == Normalize2(n, d, 0)
    IN  1024 * t[3] + Log2Frac((t[1] * 16384) \div t[2], 10, 0)

\* note_number = 12.0 * (interpolated_freq / 440.0).log2() + 69.0, in
\* hundredths of a semitone, for a finite positive frequency
NoteNumber(freq) ==
    ((1200 * Log2(freq[1], 440 * freq[2]) + 512) \div 1024) + 6900

\* f32::round of c / 100: half away from zero
Round100(c) ==
    IF c >= 0 THEN (c + 50) \div 100 ELSE 0 - ((50 - c) \div 100)

\* nearest_note_num = note_number.round() as i32; the cast saturates
NearestNoteNum(freq) ==
    IF IsFinite(freq) THEN Round100(NoteNumber(freq)) ELSE 2147483647

\* deviation = (note_number - nearest_note_num as f32) * 100.0
Deviation(freq) ==
    IF IsFinite(freq)
    THEN <<NoteNumber(freq) - 100 * NearestNoteNum(freq), 1>>
    ELSE <<1, 0>>

\* i32 "/" truncates toward zero
TruncDiv(a, b) == IF a >= 0 THEN a \div b ELSE 0 - ((0 - a) \div b)

\* NoteIdx with the remainder operator % of Rust, which takes the sign of
\* the dividend.
NoteIdx_Rem(nearest) ==
    IF nearest >= 0 THEN nearest % 12 ELSE 0 - ((0 - nearest) % 12)

\* note_idx = nearest_note_num.rem_euclid(12) as usize
NoteIdx(nearest) == nearest % 12

\* octave = (nearest_note_num / 12) - 1
Octave(nearest) == TruncDiv(nearest, 12) - 1

note_names ==
    <<"C", "C#", "D", "D#", "E", "F", "F#", "G", "G#", "A", "A#", "B">>

\* note_names[note_idx]; an index outside the array panics.
NoteName(note_idx) ==
    IF note_idx \in 0..11 THEN note_names[note_idx + 1] ELSE "panic"

----------------------------------------------------------------------------
(* One analysis cycle, lines 211-267 *)

\* AudioMessage of lines 251-257
PitchMessage(freq, amp) ==
    LET nearest == NearestNoteNum(freq)
    IN  [note_name |-> NoteName(NoteIdx(nearest)),
         octave |-> Octave(nearest),
         freq |-> freq,
         deviation_cents |-> Deviation(freq),
         amplitude |-> amp]

\* AudioMessage of lines 260-266
NoPitchMessage ==
    [note_name |-> "--", octave |-> 0, freq |-> <<0, 1>>,
     deviation_cents |-> <<0, 1>>, amplitude |-> 0]

\* The messages a cycle passes to sender.send, given the frame's RMS and the
\* spectrum the transform would produce.
CycleSends(amp, spectrum, sr) ==
    IF AboveThreshold(amp)
    THEN LET freq == InterpolatedFreq(spectrum, MaxIdx(spectrum), sr)
         IN  IF FloatGt(freq, 20) THEN <<PitchMessage(freq, amp)>> ELSE <<>>
    ELSE <<NoPitchMessage>>

\* What a cycle did: its RMS, whether fft.process and the peak search ran,
\* the frequency it computed (NaN when it computed none) and what it sent.
CycleOf(frame, spectrum, sr) ==
    LET amp == Rms(FftInput(frame))
    IN  [rms |-> amp,
         fft |-> AboveThreshold(amp),
         freq |-> IF AboveThreshold(amp)
                  THEN InterpolatedFreq(spectrum, MaxIdx(spectrum), sr)
                  ELSE <<0, 0>>,
         sends |-> CycleSends(amp, spectrum, sr)]

NoCycle == [rms |-> 0, fft |-> FALSE, freq |-> <<0, 0>>, sends |-> <<>>]

\* Outputs of the transform: WINDOW_SIZE / 2 magnitudes.
Spectra == [1..(WINDOW_SIZE \div 2) -> Mags]

----------------------------------------------------------------------------
(* TunerApp, lines 54-82.  A displayed string is the sequence of the pieces *)
(* format! concatenates; display_amp is in units of 1/1200.                *)

\* format!("{}{}", msg.note_name, msg.octave)
FormatNote(msg) == <<msg.note_name, msg.octave>>

\* format!("{:.1} Hz", msg.freq): tenths of a Hz, rounded
FormatFreq(freq) ==
    IF IsFinite(freq)
    THEN <<(20 * freq[1] + freq[2]) \div (2 * freq[2]), "Hz">>
    ELSE <<IF freq[1] = 1 THEN "inf" ELSE IF freq[1] = 0 THEN "NaN" ELSE "-inf",
           "Hz">>

\* LastPending that takes the first pending report (next() for last()).
LastPending_First(q) == IF q = <<>> THEN <<>> ELSE <<q[1]>>

\* self.receiver.try_iter().last()
LastPending(q) == IF q = <<>> THEN <<>> ELSE <<q[Len(q)]>>

\* Unread that leaves all but the first report (try_recv for try_iter).
Unread_AllButFirst(q) == IF q = <<>> THEN q ELSE Tail(q)

\* What try_iter().last() leaves on the channel: the iterator is run to
\* its end, which is when try_recv finds nothing pending.
Unread(q) == <<>>

\* smoothed_cents += (display_cents - smoothed_cents) * 0.2
Smooth(s, dc) ==
    IF IsFinite(s) /\ IsFinite(dc)
    THEN <<s[1] + TruncDiv(dc[1] - s[1], 5), 1>>
    ELSE IF IsFinite(s) THEN dc
    ELSE <<0, 0>>

----------------------------------------------------------------------------
(* State machine *)

Init ==
    /\ audio_q = <<>>
    /\ audio_open = TRUE
    /\ nextId = 1
    /\ sample_rate \in SampleRates
    /\ ring_buffer = <<>>
    /\ pc = "drain"
    /\ report_q = <<>>
    /\ rx_alive = TRUE
    /\ display_note = <<"--">>
    /\ display_freq = <<0, "Hz">>
    /\ display_cents = <<0, 1>>
    /\ display_amp = 0
    /\ smoothed_cents = <<0, 1>>
    /\ refreshSaw = <<>>
    /\ cycle = NoCycle
    /\ cycles = 0
    /\ sendFailed = FALSE
    /\ drainPushed = <<>>
    /\ sincePrev = 0
    /\ gap = 0
    /\ frameStart = 0
    /\ prevStart = 0
    /\ probe = <<>>

\* Capture callback, lines 176-180: one audio_tx.send(sample).
Enqueue ==
    /\ audio_open
    /\ nextId <= MaxSamples
    /\ \E v \in SampleValues :
           audio_q' = Append(audio_q, [id |-> nextId, v |-> v])
    /\ nextId' = nextId + 1
    /\ UNCHANGED <<audio_open, sample_rate, ring_buffer, pc, report_q,
                   rx_alive, drainPushed, sincePrev>>
    /\ UNCHANGED ghostVars
    /\ UNCHANGED <<appVars, probe>>

\* The stream fails and the callback, with audio_tx, is dropped.
StreamClose ==
    /\ audio_open
    /\ audio_open' = FALSE
    /\ UNCHANGED <<audio_q, nextId, sample_rate, ring_buffer, pc, report_q,
                   rx_alive, drainPushed, sincePrev>>
    /\ UNCHANGED ghostVars
    /\ UNCHANGED <<appVars, probe>>

\* Lines 198-203, one iteration of the while let: try_recv returned Ok.
DrainRecv ==
    /\ pc = "drain"
    /\ audio_q # <<>>
    /\ ring_buffer' = PushEvict(ring_buffer, Head(audio_q))
    /\ audio_q' = Tail(audio_q)
    /\ drainPushed' = Append(drainPushed, Head(audio_q).id)
    /\ sincePrev' = sincePrev + 1
    /\ UNCHANGED <<pc, report_q, rx_alive>>
    /\ UNCHANGED captureVars
    /\ UNCHANGED ghostVars
    /\ UNCHANGED <<appVars, probe>>

\* Lines 198 and 204: try_recv returned Err, the while let ends and the
\* length test picks the branch.
DrainEnd ==
    /\ pc = "drain"
    /\ audio_q = <<>>
    /\ pc' = IF NotFull(ring_buffer) THEN "recv" ELSE "analyze"
    /\ UNCHANGED <<audio_q, ring_buffer, report_q, rx_alive, drainPushed,
                   sincePrev>>
    /\ UNCHANGED captureVars
    /\ UNCHANGED ghostVars
    /\ UNCHANGED <<appVars, probe>>

\* Lines 205-208: recv returned Ok(sample).
RecvSample ==
    /\ pc = "recv"
    /\ audio_q # <<>>
    /\ ring_buffer' = Append(ring_buffer, Head(audio_q))
    /\ audio_q' = Tail(audio_q)
    /\ sincePrev' = sincePrev + 1
    /\ drainPushed' = <<>>
    /\ pc' = "drain"
    /\ UNCHANGED <<report_q, rx_alive>>
    /\ UNCHANGED captureVars
    /\ UNCHANGED ghostVars
    /\ UNCHANGED <<appVars, probe>>

\* Lines 205-208: recv returned Err (channel empty and disconnected).
RecvDisconnected ==
    /\ pc = "recv"
    /\ audio_q = <<>>
    /\ ~audio_open
    /\ drainPushed' = <<>>
    /\ pc' = "drain"
    /\ UNCHANGED <<audio_q, ring_buffer, report_q, rx_alive, sincePrev>>
    /\ UNCHANGED captureVars
    /\ UNCHANGED ghostVars
    /\ UNCHANGED <<appVars, probe>>

\* Lines 211-267.  The transform is an external primitive: its output is
\* any spectrum.  sender.send fails when the Receiver is gone; the result
\* is discarded (let _ =).
Analyze ==
    /\ pc = "analyze"
    /\ \E spectrum \in Spectra :
         LET c == CycleOf(ring_buffer, spectrum, sample_rate)
         IN  /\ cycle' = c
             /\ report_q' = IF rx_alive THEN report_q \o c.sends ELSE report_q
             /\ sendFailed' = (sendFailed \/ (~rx_alive /\ c.sends # <<>>))
    /\ cycles' = cycles + 1
    /\ gap' = sincePrev
    /\ prevStart' = frameStart
    /\ frameStart' = ring_buffer[1].id
    /\ sincePrev' = 0
    /\ pc' = "advance"
    /\ UNCHANGED <<audio_q, ring_buffer, rx_alive, drainPushed>>
    /\ UNCHANGED captureVars
    /\ UNCHANGED <<appVars, probe>>

\* Advance that discards first and sleeps only if the buffer is still full
\* after the discard.
Advance_TestAfterDiscard ==
    /\ pc = "advance"
    /\ ring_buffer' = PopFront(ring_buffer, HOP_SIZE)
    /\ IF ~NotFull(ring_buffer')
       THEN /\ pc' = "sleep"
            /\ UNCHANGED drainPushed
       ELSE /\ pc' = "drain"
            /\ drainPushed' = <<>>
    /\ UNCHANGED <<audio_q, report_q, rx_alive, sincePrev>>
    /\ UNCHANGED captureVars
    /\ UNCHANGED ghostVars
    /\ UNCHANGED <<appVars, probe>>

\* Lines 269-272, up to the sleep.
Advance ==
    /\ pc = "advance"
    /\ IF ~NotFull(ring_buffer)
       THEN /\ ring_buffer' = PopFront(ring_buffer, HOP_SIZE)
            /\ pc' = "sleep"
            /\ UNCHANGED drainPushed
       ELSE /\ pc' = "drain"
            /\ drainPushed' = <<>>
            /\ UNCHANGED ring_buffer
    /\ UNCHANGED <<audio_q, report_q, rx_alive, sincePrev>>
    /\ UNCHANGED captureVars
    /\ UNCHANGED ghostVars
    /\ UNCHANGED <<appVars, probe>>

\* Line 273: thread::sleep(1 ms) returns and the loop starts over.
Sleep ==
    /\ pc = "sleep"
    /\ pc' = "drain"
    /\ drainPushed' = <<>>
    /\ UNCHANGED <<audio_q, ring_buffer, report_q, rx_alive, sincePrev>>
    /\ UNCHANGED captureVars
    /\ UNCHANGED ghostVars
    /\ UNCHANGED <<appVars, probe>>

\* The application window closes: TunerApp and its Receiver are dropped.
DropReceiver ==
    /\ rx_alive
    /\ rx_alive' = FALSE
    /\ report_q' = <<>>
    /\ UNCHANGED <<audio_q, ring_buffer, pc, drainPushed, sincePrev>>
    /\ UNCHANGED captureVars
    /\ UNCHANGED ghostVars
    /\ UNCHANGED <<appVars, probe>>

\* TunerApp::update, lines 68-82 (the painting reads the fields only).
Update ==
    /\ rx_alive
    /\ LET last == LastPending(report_q)
       IN  IF last # <<>>
           THEN LET msg == last[1]
                IN  IF AboveThreshold(msg.amplitude)
                    THEN /\ display_note' = FormatNote(msg)
                         /\ display_freq' = FormatFreq(msg.freq)
                         /\ display_cents' = msg.deviation_cents
                         /\ display_amp' = msg.amplitude
                    ELSE /\ display_amp' = (display_amp * 9) \div 10
                         /\ UNCHANGED <<display_note, display_freq,
                                        display_cents>>
           ELSE /\ display_amp' = (display_amp * 19) \div 20
                /\ UNCHANGED <<display_note, display_freq, display_cents>>
    /\ smoothed_cents' = Smooth(smoothed_cents, display_cents')
    /\ report_q' = Unread(report_q)
    /\ refreshSaw' = report_q
    /\ UNCHANGED <<audio_q, ring_buffer, pc, rx_alive, drainPushed, sincePrev>>
    /\ UNCHANGED captureVars
    /\ UNCHANGED ghostVars
    /\ UNCHANGED probe

Next ==
    \/ Enqueue
    \/ StreamClose
    \/ DrainRecv
    \/ DrainEnd
    \/ RecvSample
    \/ RecvDisconnected
    \/ Analyze
    \/ Advance
    \/ Sleep
    \/ DropReceiver

\* The capture side and the processing loop; the display is left out: it
\* only takes reports off report_q and writes its own fields, which
\* run_audio_loop never reads.
Spec == Init /\ [][Next]_vars

----------------------------------------------------------------------------
(* The capture side, the processing loop and the display together, started  *)
(* after the capture side has enqueued a first burst of AppBurst samples.   *)

Burst(vals) == [i \in 1..AppBurst |-> [id |-> i, v |-> vals[i]]]

AppInit ==
    /\ audio_q \in {Burst(vals) : vals \in [1..AppBurst -> SampleValues]}
    /\ audio_open = TRUE
    /\ nextId = AppBurst + 1
    /\ sample_rate \in SampleRates
    /\ ring_buffer = <<>>
    /\ pc = "drain"
    /\ report_q = <<>>
    /\ rx_alive = TRUE
    /\ display_note = <<"--">>
    /\ display_freq = <<0, "Hz">>
    /\ display_cents = <<0, 1>>
    /\ display_amp = 0
    /\ smoothed_cents = <<0, 1>>
    /\ refreshSaw = <<>>
    /\ cycle = NoCycle
    /\ cycles = 0
    /\ sendFailed = FALSE
    /\ drainPushed = <<>>
    /\ sincePrev = 0
    /\ gap = 0
    /\ frameStart = 0
    /\ prevStart = 0
    /\ probe = <<>>

AppNext ==
    \/ Enqueue
    \/ DrainRecv
    \/ DrainEnd
    \/ RecvSample
    \/ Analyze
    \/ Advance
    \/ Sleep
    \/ Update
    \/ DropReceiver

AppSpec == AppInit /\ [][AppNext]_vars

----------------------------------------------------------------------------
(* The estimator of lines 224-258 applied to a spectrum on its own, for    *)
(* spectra longer than the scaled-down transform produces.                 *)

PeakSpectra == UNION {[1..n -> PeakMags] : n \in 2..MaxBins}

EstimatorInit ==
    /\ audio_q = <<>>
    /\ audio_open = TRUE
    /\ nextId = 1
    /\ sample_rate \in SampleRates
    /\ ring_buffer = <<>>
    /\ pc = "drain"
    /\ report_q = <<>>
    /\ rx_alive = TRUE
    /\ display_note = <<"--">>
    /\ display_freq = <<0, "Hz">>
    /\ display_cents = <<0, 1>>
    /\ display_amp = 0
    /\ smoothed_cents = <<0, 1>>
    /\ refreshSaw = <<>>
    /\ cycle = NoCycle
    /\ cycles = 0
    /\ sendFailed = FALSE
    /\ drainPushed = <<>>
    /\ sincePrev = 0
    /\ gap = 0
    /\ frameStart = 0
    /\ prevStart = 0
    /\ probe \in {[spectrum |-> sp, done |-> FALSE, max_idx |-> 0,
                   interp |-> FALSE, reads |-> {}, panicked |-> FALSE,
                   delta |-> <<0, 0>>, freq |-> <<0, 0>>] :
                  sp \in PeakSpectra}

\* Lines 224-240 on probe.spectrum: the peak, whether the interpolation
\* branch ran, the bins it indexed, whether an index was out of bounds (a
\* panic, after which there is no delta and no frequency), delta and the
\* frequency.
Estimate ==
    /\ ~probe.done
    /\ LET sp == probe.spectrum
           m == MaxIdx(sp)
           rd == SpectrumReads(sp, m)
           ok == InBounds(sp, rd)
       IN  probe' = [probe EXCEPT
                       !.done = TRUE,
                       !.max_idx = m,
                       !.interp = Interior(sp, m),
                       !.reads = rd,
                       !.panicked = ~ok,
                       !.delta = IF ok /\ Interior(sp, m)
                                 THEN Delta(sp, m) ELSE <<0, 0>>,
                       !.freq = IF ok
                                THEN InterpolatedFreq(sp, m, sample_rate)
                                ELSE <<0, 0>>]
    /\ UNCHANGED <<audio_q, audio_open, nextId, sample_rate, ring_buffer, pc,
                   report_q, rx_alive, drainPushed, sincePrev>>
    /\ UNCHANGED ghostVars
    /\ UNCHANGED appVars

EstimatorNext == Estimate

EstimatorSpec == EstimatorInit /\ [][EstimatorNext]_vars

----------------------------------------------------------------------------
(* The note mapping of lines 248-252 applied to a nearest note number on   *)
(* its own.                                                                *)

NoteNumbers == ((0 - MaxNote)..(MaxNote + 80)) \cup {2147483647}

NoteInit ==
    /\ audio_q = <<>>
    /\ audio_open = TRUE
    /\ nextId = 1
    /\ sample_rate \in SampleRates
    /\ ring_buffer = <<>>
    /\ pc = "drain"
    /\ report_q = <<>>
    /\ rx_alive = TRUE
    /\ display_note = <<"--">>
    /\ display_freq = <<0, "Hz">>
    /\ display_cents = <<0, 1>>
    /\ display_amp = 0
    /\ smoothed_cents = <<0, 1>>
    /\ refreshSaw = <<>>
    /\ cycle = NoCycle
    /\ cycles = 0
    /\ sendFailed = FALSE
    /\ drainPushed = <<>>
    /\ sincePrev = 0
    /\ gap = 0
    /\ frameStart = 0
    /\ prevStart = 0
    /\ probe \in {[nearest |-> n, done |-> FALSE, note_idx |-> 0,
                   octave |-> 0, note_name |-> ""] : n \in NoteNumbers}

\* Lines 248-252 on probe.nearest.
MapNote ==
    /\ ~probe.done
    /\ probe' = [probe EXCEPT
                   !.done = TRUE,
                   !.note_idx = NoteIdx(probe.nearest),
                   !.octave = Octave(probe.nearest),
                   !.note_name = NoteName(NoteIdx(probe.nearest))]
    /\ UNCHANGED <<audio_q, audio_open, nextId, sample_rate, ring_buffer, pc,
                   report_q, rx_alive, drainPushed, sincePrev>>
    /\ UNCHANGED ghostVars
    /\ UNCHANGED appVars

NoteNext == MapNote

NoteSpec == NoteInit /\ [][NoteNext]_vars

----------------------------------------------------------------------------
(* Claims *)

\* A cycle has just completed: the loop stands between the analysis and the
\* advance, and ring_buffer still holds the analysed frame.
CycleCompleted == pc = "advance"

\* The cycle found a pitch: RMS above the threshold and frequency above the
\* 20 Hz floor.
PitchFound == cycle.fft /\ FloatGt(cycle.freq, 20)

\* The loop is parked in audio_rx.recv().
Blocked == pc = "recv" /\ audio_q = <<>> /\ audio_open

\* C1: every completed analysis cycle passes exactly one report to the
\* report channel: a pitch report when a pitch is found and the no-pitch
\* report in every other case, the sub-floor case (RMS above THRESHOLD,
\* frequency at or below 20 Hz) included.
C1_OneReportPerCycle ==
    CycleCompleted =>
        /\ Len(cycle.sends) = 1
        /\ IF PitchFound
           THEN /\ cycle.sends[1].amplitude = cycle.rms
                /\ cycle.sends[1].freq = cycle.freq
           ELSE cycle.sends[1] = NoPitchMessage

\* C2: once sending a report has failed because the receiver is gone, the
\* processing loop performs no further analysis cycle.
C2_StopsWhenConsumerGone == [][sendFailed => cycles' = cycles]_vars

\* C3: between loop steps the ring buffer never holds more than WINDOW_SIZE
\* samples, whatever the interleaving with the capture side, and a sample
\* pushed into a full buffer evicts exactly the oldest one.
C3_BufferBounded ==
    /\ [](Len(ring_buffer) <= WINDOW_SIZE)
    /\ [][(/\ pc \in {"drain", "recv"}
           /\ audio_q # <<>>
           /\ audio_q' = Tail(audio_q)
           /\ Len(ring_buffer) = WINDOW_SIZE)
          => ring_buffer' = Append(Tail(ring_buffer), Head(audio_q))]_vars

\* C3 witness: a drain step pushed into a full buffer before any advance, so
\* the oldest sample of the stream is gone and the buffer is still full.
C3_Witness ==
    /\ cycles = 0
    /\ pc = "drain"
    /\ Len(ring_buffer) = WINDOW_SIZE
    /\ ring_buffer[1].id > 1

\* C4: after one execution of the drain has pushed more than WINDOW_SIZE
\* samples (no advance since), the buffer holds exactly the last
\* WINDOW_SIZE of them, oldest first, in the order of enqueueing.
C4_LastWindowInOrder ==
    (pc \in {"drain", "analyze", "advance"} /\ Len(drainPushed) > WINDOW_SIZE)
        => /\ Ids(ring_buffer) =
                SubSeq(drainPushed, Len(drainPushed) - WINDOW_SIZE + 1,
                       Len(drainPushed))
           /\ \A i \in 1..(Len(ring_buffer) - 1) :
                  ring_buffer[i + 1].id = ring_buffer[i].id + 1

\* C4 witness: a drain that pushed more than WINDOW_SIZE samples has ended.
C4_Witness == pc = "analyze" /\ Len(drainPushed) > WINDOW_SIZE

\* C5: the advance after a cycle removes exactly the HOP_SIZE oldest
\* samples, whatever the cycle sent, and until a new sample is received
\* the buffer length is WINDOW_SIZE - HOP_SIZE.
C5_AdvanceByHop ==
    /\ [][(CycleCompleted /\ pc' # pc)
          => /\ ring_buffer' =
                    SubSeq(ring_buffer, HOP_SIZE + 1, Len(ring_buffer))
             /\ Len(ring_buffer') = WINDOW_SIZE - HOP_SIZE]_vars
    /\ []((cycles > 0 /\ sincePrev = 0 /\ ~CycleCompleted)
          => Len(ring_buffer) = WINDOW_SIZE - HOP_SIZE)

\* C5 witness: a cycle that sent nothing has been followed by the advance and
\* no sample has been received since.
C5_Witness ==
    /\ cycles > 0
    /\ sincePrev = 0
    /\ pc = "drain"
    /\ cycle.sends = <<>>
    /\ Len(ring_buffer) = WINDOW_SIZE - HOP_SIZE

\* C6 as stated: each analysed frame begins exactly HOP_SIZE samples after
\* the previous one, at every capture rate.
C6_ExactHop == cycles >= 2 => frameStart = prevStart + HOP_SIZE

\* C6 amended: each analysed frame begins at least HOP_SIZE samples after
\* the previous one, namely as many samples later as were pushed into the
\* buffer between the two cycles (so the overlap is at most WINDOW_SIZE -
\* HOP_SIZE, and exactly that when HOP_SIZE samples were pushed).
C6_AtLeastHop ==
    cycles >= 2 =>
        /\ frameStart >= prevStart + HOP_SIZE
        /\ frameStart = prevStart + gap

\* C6 witness: two cycles ran and the second frame starts more than HOP_SIZE
\* samples after the first.
C6_Witness == cycles >= 2 /\ frameStart > prevStart + HOP_SIZE

\* C7: a cycle whose frame has RMS <= THRESHOLD runs neither the transform
\* nor the peak search and sends the placeholder report.
C7_SilentFramePlaceholder ==
    (CycleCompleted /\
     SumSq(FftInput(ring_buffer)) <= 16 * THRESHOLD * THRESHOLD * WINDOW_SIZE)
        => /\ ~cycle.fft
           /\ cycle.sends = <<NoPitchMessage>>

\* C7 witness: a cycle on a frame whose RMS equals THRESHOLD has completed.
C7_Witness ==
    /\ CycleCompleted
    /\ SumSq(FftInput(ring_buffer)) = 16 * THRESHOLD * THRESHOLD * WINDOW_SIZE
    /\ cycle.sends = <<NoPitchMessage>>

\* C8 as stated: once the first analysis cycle has completed, the loop never
\* blocks waiting for a sample.
C8_NoBlockInSteadyState == cycles >= 1 => ~Blocked

\* C8 amended: the loop waits on the sample channel only while the buffer
\* holds fewer than WINDOW_SIZE samples (during the initial fill and after
\* each advance); with a full buffer its only wait is the pacing delay.
C8_BlocksOnlyWhenNotFull ==
    /\ pc = "recv" => Len(ring_buffer) < WINDOW_SIZE
    /\ Len(ring_buffer) = WINDOW_SIZE => pc \in {"drain", "analyze", "advance"}

\* C8 witness: after a completed cycle the loop is parked in recv.
C8_Witness == cycles >= 1 /\ Blocked

\* C9: the loop leaves the blocking receive only with one more sample in
\* the buffer, also when the channel is empty and closed.
C9_RecvAlwaysReceives ==
    [][(pc = "recv" /\ pc' # "recv")
       => Len(ring_buffer') = Len(ring_buffer) + 1]_vars

\* The estimator has been applied to probe.spectrum.
Estimated == probe # <<>> /\ probe.done

\* magnitude of bin k of the probed spectrum
Mag(k) == probe.spectrum[k + 1]

\* C10 as stated: the peak search selects a bin of maximum magnitude among
\* bins 1 .. len-1, and of equal maxima the one with the lowest index.
C10_FirstMaximum ==
    Estimated =>
        /\ probe.max_idx \in 1..(Len(probe.spectrum) - 1)
        /\ \A k \in 1..(Len(probe.spectrum) - 1) :
               /\ Mag(k) <= Mag(probe.max_idx)
               /\ k < probe.max_idx => Mag(k) < Mag(probe.max_idx)

\* C10 amended: the peak search selects a bin of maximum magnitude among
\* bins 1 .. len-1 (never bin 0), and of equal maxima the one with the
\* highest index.
C10_LastMaximum ==
    Estimated =>
        /\ probe.max_idx \in 1..(Len(probe.spectrum) - 1)
        /\ \A k \in 1..(Len(probe.spectrum) - 1) :
               /\ Mag(k) <= Mag(probe.max_idx)
               /\ k > probe.max_idx => Mag(k) < Mag(probe.max_idx)

\* C10 witness: two bins share the maximum, bin 0 is larger than both, and
\* the search has selected one of them.
C10_Witness ==
    /\ Estimated
    /\ \E j, k \in 1..(Len(probe.spectrum) - 1) :
           j < k /\ Mag(j) = Mag(k) /\ k = probe.max_idx
    /\ Mag(0) > Mag(probe.max_idx)

\* C11: when the interpolation ran and its denominator y_l - 2 y_c + y_r is
\* zero, the frequency is the unrefined peak_index * sample_rate /
\* WINDOW_SIZE, a finite value.
C11_ZeroDenominatorFallsBack ==
    (Estimated /\ probe.interp /\ ~probe.panicked
     /\ Mag(probe.max_idx - 1) - 2 * Mag(probe.max_idx)
            + Mag(probe.max_idx + 1) = 0)
        => /\ probe.freq[2] > 0
           /\ probe.freq[1] * WINDOW_SIZE
                  = probe.max_idx * sample_rate * probe.freq[2]

\* C16: the interpolation runs exactly when 0 < peak index < len - 1;
\* otherwise the frequency is the unrefined integer bin; every bin indexed
\* lies in 0 .. len - 1 and nothing panics.
C16_InterpolationGuard ==
    Estimated =>
        /\ probe.interp <=> (0 < probe.max_idx
                             /\ probe.max_idx < Len(probe.spectrum) - 1)
        /\ probe.interp => probe.reads = {probe.max_idx - 1, probe.max_idx,
                                          probe.max_idx + 1}
        /\ probe.reads \subseteq 0..(Len(probe.spectrum) - 1)
        /\ ~probe.panicked
        /\ ~probe.interp =>
               /\ probe.reads = {}
               /\ probe.freq[2] > 0
               /\ probe.freq[1] * WINDOW_SIZE
                      = probe.max_idx * sample_rate * probe.freq[2]

\* C16 witness: the peak is the last bin of a spectrum of at least three
\* bins and the frequency was computed without interpolation.
C16_Witness ==
    /\ Estimated
    /\ Len(probe.spectrum) >= 3
    /\ probe.max_idx = Len(probe.spectrum) - 1
    /\ ~probe.interp
    /\ probe.freq[2] > 0

\* The interpolation ran with a nonzero denominator.
Refined ==
    /\ Estimated
    /\ probe.interp
    /\ ~probe.panicked
    /\ Mag(probe.max_idx - 1) - 2 * Mag(probe.max_idx)
           + Mag(probe.max_idx + 1) # 0

\* |delta| <= 0.5 for the finite delta <<n, d>>
WithinHalfBin(delta) == delta[2] > 0 /\ 2 * Abs(delta[1]) <= delta[2]

\* C17 as stated: whenever the interpolation runs with a nonzero
\* denominator, |delta| <= 0.5, also when the peak is bin 1 and bin 0 is
\* larger than bin 1.
C17_DeltaWithinHalfBin == Refined => WithinHalfBin(probe.delta)

\* C17 amended: whenever the interpolation runs with a nonzero denominator
\* and the left neighbour is not larger than the peak (always so for a peak
\* index of 2 or more), |delta| <= 0.5.
C17_DeltaWithinHalfBinAtPeak ==
    (Refined /\ Mag(probe.max_idx - 1) <= Mag(probe.max_idx))
        => WithinHalfBin(probe.delta)

\* C17 witness: an interpolation at peak bin 1 whose left neighbour, bin 0,
\* is not larger, with a nonzero offset.
C17_Witness ==
    /\ Refined
    /\ probe.max_idx = 1
    /\ Mag(0) <= Mag(1)
    /\ probe.delta[1] # 0
    /\ WithinHalfBin(probe.delta)

\* The note mapping has been applied to probe.nearest.
Mapped == probe # <<>> /\ probe.done

C14_PitchClassInRange ==
    Mapped =>
        /\ probe.note_idx \in 0..11
        /\ probe.note_name \in {note_names[i] : i \in 1..12}
        /\ (\E k \in (0 - 4 * MaxNote)..(4 * MaxNote) : probe.nearest = 12 * k)
               => probe.note_name = "C"

\* C14 witness: a negative multiple of 12 has been mapped to "C".
C14_Witness ==
    /\ Mapped
    /\ probe.nearest < 0
    /\ \E k \in (0 - 4 * MaxNote)..(0 - 1) : probe.nearest = 12 * k
    /\ probe.note_name = "C"

\* The loop is in thread::sleep, the pacing delay.
Pacing == pc = "sleep"

\* C15 as stated: the pacing delay is imposed only when the buffer is still
\* full after the HOP_SIZE oldest samples have been discarded.
C15_DelayOnlyIfStillFull == Pacing => Len(ring_buffer) >= WINDOW_SIZE

\* C15 amended: the length test is made before the discard, where the
\* buffer is always full, so every analysis cycle is followed by the discard
\* and then by the pacing delay, which runs with WINDOW_SIZE - HOP_SIZE
\* samples in the buffer.
C15_DelayAfterEveryCycle ==
    /\ [][(CycleCompleted /\ pc' # pc) => Pacing']_vars
    /\ [](Pacing => Len(ring_buffer) = WINDOW_SIZE - HOP_SIZE)

\* C15 witness: the loop is in the pacing delay with fewer than WINDOW_SIZE
\* samples in the buffer.
C15_Witness == Pacing /\ cycles >= 1 /\ Len(ring_buffer) < WINDOW_SIZE

\* C18: every analysed frame is WINDOW_SIZE consecutive samples of the
\* capture stream in enqueue order, no cycle runs before WINDOW_SIZE samples
\* have been received, and each frame begins at least HOP_SIZE samples after
\* the previous one.
C18_FramesAreStreamWindows ==
    CycleCompleted =>
        /\ Len(ring_buffer) = WINDOW_SIZE
        /\ ring_buffer[1].id = frameStart
        /\ \A i \in 1..WINDOW_SIZE : ring_buffer[i].id = frameStart + i - 1
        /\ (nextId - 1) - Len(audio_q) >= WINDOW_SIZE
        /\ frameStart + WINDOW_SIZE - 1 <= (nextId - 1) - Len(audio_q)
        /\ cycles >= 2 => frameStart >= prevStart + HOP_SIZE

\* C18 witness: a second frame has been analysed that starts exactly
\* HOP_SIZE samples after the first.
C18_Witness ==
    /\ CycleCompleted
    /\ cycles >= 2
    /\ frameStart = prevStart + HOP_SIZE

\* msg.amplitude > THRESHOLD, the display's test (amplitudes in 1/1200)
Loud(msg) == msg.amplitude > 4 * THRESHOLD

\* C12: a display refresh never waits for a report: it can run whenever the
\* application lives, takes every pending report off the channel, updates
\* the display from the most recent one only, and with nothing pending
\* leaves the channel as it is.
C12_RefreshTakesAllUsesLast ==
    /\ [](rx_alive => ENABLED Update)
    /\ [][(rx_alive /\ rx_alive' /\ Len(report_q') < Len(report_q))
          => /\ report_q' = <<>>
             /\ LET last == report_q[Len(report_q)]
                IN  IF Loud(last)
                    THEN /\ display_note' = <<last.note_name, last.octave>>
                         /\ display_cents' = last.deviation_cents
                         /\ display_amp' = last.amplitude
                    ELSE /\ display_note' = display_note
                         /\ display_cents' = display_cents
                         /\ display_amp' = (display_amp * 9) \div 10]_vars

\* C12 witness: the last refresh took two or more pending reports at once,
\* the most recent a pitch report that differs from an older one, and the
\* display shows the most recent.
C12_Witness ==
    /\ Len(refreshSaw) >= 2
    /\ Loud(refreshSaw[Len(refreshSaw)])
    /\ refreshSaw[1] # refreshSaw[Len(refreshSaw)]
    /\ report_q = <<>>
    /\ display_amp = refreshSaw[Len(refreshSaw)].amplitude
    /\ display_note = <<refreshSaw[Len(refreshSaw)].note_name,
                        refreshSaw[Len(refreshSaw)].octave>>

\* A pitch report: amplitude above THRESHOLD, frequency above 20 Hz, a note
\* name of the table.
PitchShape(msg) ==
    /\ msg.amplitude > 4 * THRESHOLD
    /\ FloatGt(msg.freq, 20)
    /\ msg.note_name \in {note_names[i] : i \in 1..12}

\* The placeholder: amplitude 0 and frequency 0.
PlaceholderShape(msg) == msg.amplitude = 0 /\ msg.freq = <<0, 1>>

\* Every report sent so far that the state still holds.
ReportsSeen ==
    {report_q[i] : i \in 1..Len(report_q)}
        \cup {cycle.sends[i] : i \in 1..Len(cycle.sends)}
        \cup {refreshSaw[i] : i \in 1..Len(refreshSaw)}

\* C19: every report sent is a pitch report or the placeholder; the
\* display's test amplitude > THRESHOLD accepts exactly the pitch reports,
\* and the display never shows the placeholder as a note.
C19_TwoReportShapes ==
    /\ \A msg \in ReportsSeen :
           /\ PitchShape(msg) \/ PlaceholderShape(msg)
           /\ Loud(msg) <=> PitchShape(msg)
    /\ display_note # <<"--", 0>>
    /\ display_note = <<"--">>
           \/ display_note[1] \in {note_names[i] : i \in 1..12}

\* C19 witness: one refresh took a pitch report and a placeholder and the
\* display shows a note of the table.
C19_Witness ==
    /\ \E i, j \in 1..Len(refreshSaw) :
           PitchShape(refreshSaw[i]) /\ PlaceholderShape(refreshSaw[j])
    /\ display_note # <<"--">>
    /\ display_note[1] \in {note_names[i] : i \in 1..12}

\* C20: a step taken when no report is pending, or when the most recent
\* pending report has amplitude <= THRESHOLD, leaves display_note,
\* display_freq and display_cents unchanged and does not raise display_amp,
\* also when an older pending report is a pitch report.
C20_QuietRefreshKeepsDisplay ==
    [][(IF report_q = <<>> THEN TRUE ELSE ~Loud(report_q[Len(report_q)]))
       => /\ display_note' = display_note
          /\ display_freq' = display_freq
          /\ display_cents' = display_cents
          /\ display_amp' <= display_amp]_vars

\* C20 witness: the last refresh took a pitch report followed by a report
\* with amplitude <= THRESHOLD, and the display still shows its initial
\* text.
C20_Witness ==
    /\ Len(refreshSaw) >= 2
    /\ Loud(refreshSaw[1])
    /\ ~Loud(refreshSaw[Len(refreshSaw)])
    /\ display_note = <<"--">>
    /\ display_freq = <<0, "Hz">>

====
